---------------------------- MODULE Spec2Model ----------------------------
(***************************************************************************)
(* Model of airflow/dags/pipeline.py: the DAG etl_fuels, its five          *)
(* PythonOperator tasks and the files and the table they read and write.   *)
(*                                                                         *)
(* A file is a record [cols, rows]: the header (a set of column names) and *)
(* the rows, each row a function from the header to a cell.  A cell is a   *)
(* string; the empty string is a missing value (pandas NaN).  The table    *)
(* fuels is a sequence of records over the ten columns of its schema.      *)
(*                                                                         *)
(* The scheduler is Airflow's, as the DAG configures it: a task starts     *)
(* when its upstream tasks succeeded, a task whose callable raises is      *)
(* retried default_args['retries'] times and is failed after that, and a   *)
(* run with a failed task is failed.  Runs follow one another; the files   *)
(* and the table outlive a run.  The source URL names one monthly file, so *)
(* every run of a behaviour downloads the same body, chosen in Init.       *)
(* What psycopg2.connect and requests.get do is not in the source: each    *)
(* may succeed or raise.                                                   *)
(***************************************************************************)
EXTENDS Integers, Sequences, FiniteSets, TLC

\* ------------------------------------------------------------------ bounds
MaxRows == 2      \* rows of the remote snapshot: 0..MaxRows
MaxRuns == 2      \* DAG runs started one after another

\* ------------------------------------------------- constants of the source
\* A second retry of every task.
retries_twice == 1 + 1

retries == 1      \* default_args['retries']

Stages == <<"extract_data", "clean_data", "transform_data",
            "load_to_postgres", "validate_db">>

StageNames == {Stages[i] : i \in 1..Len(Stages)}

\* task_extract >> task_clean >> task_transform >> task_load >> task_validate
Downstream == {<<Stages[i], Stages[i + 1]>> : i \in 1..(Len(Stages) - 1)}

\* The tasks are never chained: no task has an upstream task.
UpstreamOf_none(s) == {}

UpstreamOf(s) == {u \in StageNames : <<u, s>> \in Downstream}

RECURSIVE DownstreamClosure(_)
DownstreamClosure(s) ==
    LET next == {d \in StageNames : <<s, d>> \in Downstream}
    IN  next \cup UNION {DownstreamClosure(d) : d \in next}

drop_columns == {"Complemento", "Bairro", "Numero Rua", "Regiao - Sigla",
                 "Estado - Sigla", "Municipio", "Nome da Rua", "Valor de Compra"}

category_cols == {"Revenda", "CNPJ da Revenda", "Cep", "Produto",
                  "Unidade de Medida", "Bandeira"}

\* the columns load_to_postgres reads from each row
insert_cols == {"Revenda", "CNPJ da Revenda", "Cep", "Produto", "Data da Coleta",
                "Valor de Venda", "Unidade de Medida", "Bandeira", "Year", "Month"}

\* ------------------------------------------------------------------- cells
NA == ""          \* a missing value: an empty CSV field, NaN in a DataFrame
NULL == "NULL"    \* SQL NULL in a column of fuels

NoFile == [exists |-> FALSE, cols |-> {}, rows |-> <<>>]

File(cols, rows) == [exists |-> TRUE, cols |-> cols, rows |-> rows]

SeqsUpTo(S, n) == UNION {[1..k -> S] : k \in 0..n}

\* --------------------------------------------------- the remote snapshots
\* The header of the published CSV.
SourceHeader == category_cols \cup drop_columns
                    \cup {"Data da Coleta", "Valor de Venda"}

\* The cells of one observation that the pipeline treats specially; every
\* other column holds an opaque text.
GoodKind == [Revenda |-> "Posto A", Produto |-> "Gasolina", Venda |-> "5,99", Data |-> "05/01/2025"]

\* An observation as published, one without a product, one without a
\* retailer and a sale price, and one whose sale price is no numeral.
RowKinds ==
    { GoodKind,
      [Revenda |-> "Posto A", Produto |-> NA,         Venda |-> "5,99", Data |-> "05/01/2025"],
      [Revenda |-> NA,        Produto |-> "Gasolina", Venda |-> NA,     Data |-> "05/01/2025"],
      [Revenda |-> "Posto A", Produto |-> "Gasolina", Venda |-> "abc",  Data |-> "05/01/2025"] }

\* An observation whose date is not day/month/year.
BadDateKind == [Revenda |-> "Posto A", Produto |-> "Gasolina", Venda |-> "5,99", Data |-> "2025-01-05"]

RawCell(k, c) ==
    CASE c = "Revenda"        -> k.Revenda
      [] c = "Produto"        -> k.Produto
      [] c = "Valor de Venda" -> k.Venda
      [] c = "Data da Coleta" -> k.Data
      [] c = "Valor de Compra" -> NA
      [] OTHER                -> "x"

RawFile(cols, kinds) ==
    File(cols, [i \in 1..Len(kinds) |-> [c \in cols |-> RawCell(kinds[i], c)]])

\* Headers other than the published one: nothing to drop, a category column
\* missing, the sale price missing, an unlisted column, and an empty body.
OtherHeaders ==
    { SourceHeader \ drop_columns,
      SourceHeader \ {"Bandeira"},
      SourceHeader \ {"Valor de Venda", "Bairro"},
      SourceHeader \cup {"Observacao"},
      {} }

Snapshots ==
    {RawFile(SourceHeader, ks) : ks \in SeqsUpTo(RowKinds, MaxRows)}
      \cup {RawFile(SourceHeader, ks) : ks \in SeqsUpTo({GoodKind, BadDateKind}, MaxRows)}
      \cup {RawFile(h, ks) : h \in OtherHeaders, ks \in SeqsUpTo({GoodKind}, MaxRows)}

\* ----------------------------------------------------------- clean_data
\* pd.read_csv(sep=';', decimal=','): a column whose present cells are all
\* numerals with a decimal comma is read as floats; any other column keeps
\* its text.  An empty body raises EmptyDataError.
DecimalComma == {"5,99"}

ToFloat(v) == IF v = "5,99" THEN "5.99" ELSE v

NumericColumn(f, c) ==
    /\ \A i \in 1..Len(f.rows) : f.rows[i][c] \in DecimalComma \cup {NA}
    /\ \E i \in 1..Len(f.rows) : f.rows[i][c] \in DecimalComma

read_raw_csv(f) ==
    File(f.cols,
         [i \in 1..Len(f.rows) |->
            [c \in f.cols |-> IF NumericColumn(f, c) THEN ToFloat(f.rows[i][c])
                                                     ELSE f.rows[i][c]]])

\* The result of df.drop is not kept.
drop_nothing(f, columns) == f

\* df.drop(columns=drop_columns, errors='ignore')
drop(f, columns) ==
    File(f.cols \ columns,
         [i \in 1..Len(f.rows) |-> [c \in f.cols \ columns |-> f.rows[i][c]]])

CleanParses(f) == f.exists /\ f.cols # {}

clean_frame(f) == drop(read_raw_csv(f), drop_columns)

\* ------------------------------------------------------- transform_data
\* pd.to_datetime(..., format='%d/%m/%Y'); to_csv writes the date as ISO.
DayMonthYear == {"05/01/2025"}

to_datetime(v) == IF v = "05/01/2025" THEN "2025-01-05" ELSE v

dt_year(d) == IF d = "2025-01-05" THEN "2025" ELSE NA

dt_month(d) == IF d = "2025-01-05" THEN "1" ELSE NA

TransformHasColumns(f) == category_cols \cup {"Data da Coleta"} \subseteq f.cols

TransformDatesParse(f) ==
    \A i \in 1..Len(f.rows) : f.rows[i]["Data da Coleta"] \in DayMonthYear \cup {NA}

transform_frame(f) ==
    LET cols == f.cols \cup {"Year", "Month"}
        date(i) == to_datetime(f.rows[i]["Data da Coleta"])
    IN  File(cols,
             [i \in 1..Len(f.rows) |->
                [c \in cols |->
                   CASE c = "Data da Coleta" -> date(i)
                     [] c = "Year"           -> dt_year(date(i))
                     [] c = "Month"          -> dt_month(date(i))
                     [] OTHER                -> f.rows[i][c]]])


\* pd.read_csv of a file written by to_csv: the same header and the same cells.
read_csv(f) == File(f.cols, [i \in 1..Len(f.rows) |-> [c \in f.cols |-> f.rows[i][c]]])

\* ------------------------------------------------------------------- state
VARIABLES
    run,            \* number of the DAG run
    runState,       \* "pending", "running", "success", "failed"
    ti,             \* state of each task instance of the run
    tries,          \* attempts started of each task instance (try_number)
    pc,             \* position of each task's callable, "idle" when not running
    err,            \* the exception that ended each task's last attempt
    remote,         \* the body the source URL serves
    raw,            \* AIRFLOW_RAW_DATA_PATH
    clean,          \* AIRFLOW_CLEAN_DATA_PATH
    transformed,    \* AIRFLOW_TRANSFORMED_DATA_PATH
    tableExists,    \* the table fuels exists
    fuels,          \* the committed rows of fuels
    df,             \* load_to_postgres: the DataFrame it read
    txn,            \* load_to_postgres: rows inserted and not yet committed
    row_count,      \* validate_db: result of the first query
    null_count,     \* validate_db: result of the second query
    naAsNull,       \* whether the driver stores a missing value as NULL
    fuels0,         \* history: fuels before the first run
    snapshot,       \* history: fuels when the last attempt of a task started
    loads,          \* history: commits of inserted rows so far
    executed,       \* history: INSERTs executed by the last attempt of the load
    raised          \* history: the stages that raised in this run

vars == <<run, runState, ti, tries, pc, err, remote, raw, clean, transformed,
          tableExists, fuels, df, txn, row_count, null_count, naAsNull,
          fuels0, snapshot, loads, executed, raised>>

fileVars == <<raw, clean, transformed>>
dbVars == <<tableExists, fuels>>
loadVars == <<df, txn>>
valVars == <<row_count, null_count>>
envVars == <<remote, naAsNull, fuels0>>

\* ------------------------------------------------------------- the table
DbRow(retailer, product, sale_price) ==
    [retailer |-> retailer, retailer_cnpj |-> "x", zip_code |-> "x",
     product |-> product, collection_date |-> "2025-01-05",
     sale_price |-> sale_price, unit |-> "x", brand |-> "x",
     year |-> "2025", month |-> "1"]

\* What the table holds before the first run: it is shared with whoever
\* else writes to the database.
InitialTables ==
    { <<>>,
      <<DbRow("Posto A", "Gasolina", "5.99")>>,
      <<DbRow("Posto A", NULL, "5.99"), DbRow(NULL, "Gasolina", NULL)>> }

\* The driver's adaptation of a cell to an SQL value.  A missing value is a
\* float NaN in the DataFrame; the build decides whether it reaches the
\* table as NULL or as the value NaN.
Adapt(v) == IF v = NA THEN (IF naAsNull THEN NULL ELSE "NaN") ELSE v

\* VALUES (%s, ...) of the INSERT, from the row's columns
insert_values(row) ==
    [retailer |-> Adapt(row["Revenda"]), retailer_cnpj |-> Adapt(row["CNPJ da Revenda"]),
     zip_code |-> Adapt(row["Cep"]), product |-> Adapt(row["Produto"]),
     collection_date |-> Adapt(row["Data da Coleta"]),
     sale_price |-> Adapt(row["Valor de Venda"]), unit |-> Adapt(row["Unidade de Medida"]),
     brand |-> Adapt(row["Bandeira"]), year |-> Adapt(row["Year"]),
     month |-> Adapt(row["Month"])]

\* The server's check of a row against the schema: sale_price NUMERIC,
\* collection_date DATE.
InsertAccepted(v) ==
    /\ v.sale_price \in {"5.99", "NaN", NULL}
    /\ v.collection_date \in {"2025-01-05", NULL}

\* AND in the place of OR.
CriticalNull_all(r) == r.retailer = NULL /\ r.product = NULL /\ r.sale_price = NULL

\* WHERE retailer IS NULL OR product IS NULL OR sale_price IS NULL
CriticalNull(r) == r.retailer = NULL \/ r.product = NULL \/ r.sale_price = NULL

CountAll(t) == Len(t)

CountCriticalNulls(t) == Cardinality({i \in 1..Len(t) : CriticalNull(t[i])})

\* -------------------------------------------------------------------- Init
Init ==
    /\ run = 1
    /\ runState = "pending"
    /\ ti = [s \in StageNames |-> "none"]
    /\ tries = [s \in StageNames |-> 0]
    /\ pc = [s \in StageNames |-> "idle"]
    /\ err = [s \in StageNames |-> "none"]
    /\ remote \in Snapshots
    /\ raw = NoFile /\ clean = NoFile /\ transformed = NoFile
    /\ fuels \in InitialTables
    /\ tableExists \in (IF fuels = <<>> THEN BOOLEAN ELSE {TRUE})
    /\ df = NoFile /\ txn = <<>>
    /\ row_count = 0 /\ null_count = 0
    /\ naAsNull \in BOOLEAN
    /\ fuels0 = fuels
    /\ snapshot = fuels
    /\ loads = 0
    /\ executed = 0
    /\ raised = {}

\* --------------------------------------------------------- the scheduler
\* A task instance is started when every upstream task succeeded (the
\* default trigger rule), for the first time or after up_for_retry.
Runnable(s) ==
    /\ runState \in {"pending", "running"}
    /\ ti[s] \in {"none", "up_for_retry"}
    /\ \A u \in UpstreamOf(s) : ti[u] = "success"

Entry(s) == IF s \in {"load_to_postgres"} THEN "read"
            ELSE IF s = "validate_db" THEN "connect" ELSE "call"

Start(s) ==
    /\ Runnable(s)
    /\ runState' = "running"
    /\ ti' = [ti EXCEPT ![s] = "running"]
    /\ tries' = [tries EXCEPT ![s] = @ + 1]
    /\ pc' = [pc EXCEPT ![s] = Entry(s)]
    /\ err' = [err EXCEPT ![s] = "none"]
    /\ snapshot' = fuels
    /\ executed' = IF s = "load_to_postgres" THEN 0 ELSE executed
    /\ UNCHANGED <<run, fileVars, dbVars, loadVars, valVars, envVars, loads, raised>>

\* The state a task instance takes when its callable raises.
AfterFailure(s) == IF tries[s] <= retries THEN "up_for_retry" ELSE "failed"

\* The callable catches e and returns normally.
Raise_swallowed(s, e) ==
    /\ ti' = [ti EXCEPT ![s] = "success"]
    /\ pc' = [pc EXCEPT ![s] = "idle"]
    /\ err' = [err EXCEPT ![s] = e]
    /\ raised' = raised \cup {s}
    /\ UNCHANGED <<run, runState, tries, snapshot>>

\* The callable of s raises e: nothing in the callable catches it.
Raise(s, e) ==
    /\ ti' = [ti EXCEPT ![s] = AfterFailure(s)]
    /\ pc' = [pc EXCEPT ![s] = "idle"]
    /\ err' = [err EXCEPT ![s] = e]
    /\ raised' = raised \cup {s}
    /\ UNCHANGED <<run, runState, tries, snapshot>>

\* The callable of s returns.
Return(s) ==
    /\ ti' = [ti EXCEPT ![s] = "success"]
    /\ pc' = [pc EXCEPT ![s] = "idle"]
    /\ UNCHANGED <<run, runState, tries, err, snapshot, raised>>

\* The callable of s moves to position p.
Goto(s, p) ==
    /\ pc' = [pc EXCEPT ![s] = p]
    /\ UNCHANGED <<run, runState, ti, tries, err, snapshot, raised>>

\* ------------------------------------------------------------ extract_data
\* requests.get(url); raise_for_status(); the body is written as it came.
ExtractOk ==
    /\ pc["extract_data"] = "call"
    /\ raw' = File(remote.cols, remote.rows)
    /\ Return("extract_data")
    /\ UNCHANGED <<clean, transformed, dbVars, loadVars, valVars, envVars, loads, executed>>

\* The request fails or the status is not a success one.
ExtractFail ==
    /\ pc["extract_data"] = "call"
    /\ Raise("extract_data", "transfer")
    /\ UNCHANGED <<fileVars, dbVars, loadVars, valVars, envVars, loads, executed>>

\* -------------------------------------------------------------- clean_data
CleanOk ==
    /\ pc["clean_data"] = "call"
    /\ CleanParses(raw)
    /\ clean' = clean_frame(raw)
    /\ Return("clean_data")
    /\ UNCHANGED <<raw, transformed, dbVars, loadVars, valVars, envVars, loads, executed>>

CleanFail ==
    /\ pc["clean_data"] = "call"
    /\ ~CleanParses(raw)
    /\ Raise("clean_data", "parse")
    /\ UNCHANGED <<fileVars, dbVars, loadVars, valVars, envVars, loads, executed>>

\* ---------------------------------------------------------- transform_data
TransformOk ==
    /\ pc["transform_data"] = "call"
    /\ clean.exists
    /\ TransformHasColumns(read_csv(clean))
    /\ TransformDatesParse(read_csv(clean))
    /\ transformed' = transform_frame(read_csv(clean))
    /\ Return("transform_data")
    /\ UNCHANGED <<raw, clean, dbVars, loadVars, valVars, envVars, loads, executed>>

\* df[col] of an absent column raises KeyError; a date that does not match
\* the format raises ValueError.
TransformFail ==
    /\ pc["transform_data"] = "call"
    /\ ~(clean.exists /\ TransformHasColumns(read_csv(clean))
                      /\ TransformDatesParse(read_csv(clean)))
    /\ Raise("transform_data",
             IF clean.exists /\ TransformHasColumns(read_csv(clean))
             THEN "parse" ELSE "key")
    /\ UNCHANGED <<fileVars, dbVars, loadVars, valVars, envVars, loads, executed>>

\* -------------------------------------------------------- load_to_postgres
LoadRead ==
    /\ pc["load_to_postgres"] = "read"
    /\ IF transformed.exists
       THEN /\ df' = read_csv(transformed)
            /\ Goto("load_to_postgres", "connect")
       ELSE /\ df' = df
            /\ Raise("load_to_postgres", "file")
    /\ UNCHANGED <<fileVars, dbVars, txn, valVars, envVars, loads, executed>>

LoadConnect ==
    /\ pc["load_to_postgres"] = "connect"
    /\ Goto("load_to_postgres", "create")
    /\ UNCHANGED <<fileVars, dbVars, loadVars, valVars, envVars, loads, executed>>

LoadConnectFail ==
    /\ pc["load_to_postgres"] = "connect"
    /\ Raise("load_to_postgres", "connectivity")
    /\ UNCHANGED <<fileVars, dbVars, loadVars, valVars, envVars, loads, executed>>

\* DROP TABLE and CREATE TABLE in the place of CREATE TABLE IF NOT EXISTS.
LoadCreate_recreate ==
    /\ pc["load_to_postgres"] = "create"
    /\ tableExists' = TRUE
    /\ fuels' = <<>>
    /\ Goto("load_to_postgres", "insert")
    /\ UNCHANGED <<fileVars, loadVars, valVars, envVars, loads, executed>>

\* CREATE TABLE IF NOT EXISTS fuels (...); conn.commit()
LoadCreate ==
    /\ pc["load_to_postgres"] = "create"
    /\ tableExists' = TRUE
    /\ fuels' = fuels
    /\ Goto("load_to_postgres", "insert")
    /\ UNCHANGED <<fileVars, loadVars, valVars, envVars, loads, executed>>

\* The row the loop is at: the rows before it are in the open transaction.
NextRow == df.rows[Len(txn) + 1]

InsertWorks == insert_cols \subseteq df.cols /\ InsertAccepted(insert_values(NextRow))

\* A commit after every INSERT.
LoadInsert_autocommit ==
    /\ pc["load_to_postgres"] = "insert"
    /\ Len(txn) < Len(df.rows)
    /\ InsertWorks
    /\ txn' = Append(txn, insert_values(NextRow))
    /\ fuels' = Append(fuels, insert_values(NextRow))
    /\ executed' = executed + 1
    /\ Goto("load_to_postgres", "insert")
    /\ UNCHANGED <<fileVars, tableExists, df, valVars, envVars, loads>>

\* One pass of the loop: cursor.execute(INSERT ...) in the open transaction.
LoadInsert ==
    /\ pc["load_to_postgres"] = "insert"
    /\ Len(txn) < Len(df.rows)
    /\ InsertWorks
    /\ txn' = Append(txn, insert_values(NextRow))
    /\ executed' = executed + 1
    /\ Goto("load_to_postgres", "insert")
    /\ UNCHANGED <<fileVars, dbVars, df, valVars, envVars, loads>>

\* row[...] of an absent column raises KeyError, or the server rejects the
\* row.  The exception leaves the function: the connection is dropped with
\* its transaction open, and the server rolls it back.
LoadInsertFail ==
    /\ pc["load_to_postgres"] = "insert"
    /\ Len(txn) < Len(df.rows)
    /\ ~InsertWorks
    /\ txn' = <<>>
    /\ Raise("load_to_postgres",
             IF insert_cols \subseteq df.cols THEN "insert" ELSE "key")
    /\ UNCHANGED <<fileVars, dbVars, df, valVars, envVars, loads, executed>>

\* The connection is lost during the loop.
LoadInsertLost ==
    /\ pc["load_to_postgres"] = "insert"
    /\ Len(txn) < Len(df.rows)
    /\ txn' = <<>>
    /\ Raise("load_to_postgres", "connectivity")
    /\ UNCHANGED <<fileVars, dbVars, df, valVars, envVars, loads, executed>>

\* The connection is closed without the commit.
LoadCommit_noCommit ==
    /\ pc["load_to_postgres"] = "insert"
    /\ Len(txn) = Len(df.rows)
    /\ fuels' = fuels
    /\ txn' = <<>>
    /\ loads' = loads + 1
    /\ Return("load_to_postgres")
    /\ UNCHANGED <<fileVars, tableExists, df, valVars, envVars, executed>>

\* After the loop: conn.commit(); cursor.close(); conn.close(); return.
LoadCommit ==
    /\ pc["load_to_postgres"] = "insert"
    /\ Len(txn) = Len(df.rows)
    /\ fuels' = fuels \o txn
    /\ txn' = <<>>
    /\ loads' = loads + 1
    /\ Return("load_to_postgres")
    /\ UNCHANGED <<fileVars, tableExists, df, valVars, envVars, executed>>

\* ------------------------------------------------------------- validate_db
ValConnect ==
    /\ pc["validate_db"] = "connect"
    /\ Goto("validate_db", "count")
    /\ UNCHANGED <<fileVars, dbVars, loadVars, valVars, envVars, loads, executed>>

ValConnectFail ==
    /\ pc["validate_db"] = "connect"
    /\ Raise("validate_db", "connectivity")
    /\ UNCHANGED <<fileVars, dbVars, loadVars, valVars, envVars, loads, executed>>

\* The first query without its check.
ValCount_noCheck ==
    /\ pc["validate_db"] = "count"
    /\ row_count' = CountAll(fuels)
    /\ IF ~tableExists
       THEN Raise("validate_db", "undefined_table")
       ELSE Goto("validate_db", "nulls")
    /\ UNCHANGED <<fileVars, dbVars, loadVars, null_count, envVars, loads, executed>>

\* SELECT COUNT(*) FROM fuels; if row_count == 0: raise ValueError
ValCount ==
    /\ pc["validate_db"] = "count"
    /\ row_count' = CountAll(fuels)
    /\ IF ~tableExists
       THEN Raise("validate_db", "undefined_table")
       ELSE IF row_count' = 0
            THEN Raise("validate_db", "no_rows")
            ELSE Goto("validate_db", "nulls")
    /\ UNCHANGED <<fileVars, dbVars, loadVars, null_count, envVars, loads, executed>>

\* A validation that deletes the rows it objects to.
ValNulls_purge ==
    /\ pc["validate_db"] = "nulls"
    /\ null_count' = CountCriticalNulls(fuels)
    /\ IF null_count' > 0
       THEN /\ Raise("validate_db", "nulls")
            /\ fuels' = SelectSeq(fuels, LAMBDA r : ~CriticalNull(r))
       ELSE /\ Return("validate_db")
            /\ fuels' = fuels
    /\ UNCHANGED <<fileVars, tableExists, loadVars, row_count, envVars, loads, executed>>

\* SELECT COUNT(*) ... WHERE ... IS NULL; if null_count > 0: raise ValueError;
\* otherwise close and return.
ValNulls ==
    /\ pc["validate_db"] = "nulls"
    /\ null_count' = CountCriticalNulls(fuels)
    /\ IF null_count' > 0
       THEN Raise("validate_db", "nulls")
       ELSE Return("validate_db")
    /\ UNCHANGED <<fileVars, dbVars, loadVars, row_count, envVars, loads, executed>>

\* ------------------------------------------------------------ the DAG run
\* Every task succeeded: the run succeeds.
RunSucceeds ==
    /\ runState = "running"
    /\ \A s \in StageNames : ti[s] = "success"
    /\ runState' = "success"
    /\ UNCHANGED <<run, ti, tries, pc, err, fileVars, dbVars, loadVars, valVars,
                   envVars, snapshot, loads, executed, raised>>

\* A task failed for good: the tasks downstream of it become upstream_failed
\* and the run fails.
RunFails ==
    /\ runState = "running"
    /\ \E s \in StageNames :
          /\ ti[s] = "failed"
          /\ ti' = [d \in StageNames |->
                      IF d \in DownstreamClosure(s) THEN "upstream_failed" ELSE ti[d]]
    /\ runState' = "failed"
    /\ UNCHANGED <<run, tries, pc, err, fileVars, dbVars, loadVars, valVars,
                   envVars, snapshot, loads, executed, raised>>

\* The next run of the schedule: new task instances; the files and the
\* table are what the earlier runs left.
NewRun ==
    /\ runState \in {"success", "failed"}
    /\ run < MaxRuns
    /\ run' = run + 1
    /\ runState' = "pending"
    /\ ti' = [s \in StageNames |-> "none"]
    /\ tries' = [s \in StageNames |-> 0]
    /\ pc' = [s \in StageNames |-> "idle"]
    /\ err' = [s \in StageNames |-> "none"]
    /\ raised' = {}
    /\ UNCHANGED <<fileVars, dbVars, loadVars, valVars, envVars, snapshot, loads, executed>>

Next ==
    \/ \E s \in StageNames : Start(s)
    \/ ExtractOk \/ ExtractFail
    \/ CleanOk \/ CleanFail
    \/ TransformOk \/ TransformFail
    \/ LoadRead \/ LoadConnect \/ LoadConnectFail \/ LoadCreate
    \/ LoadInsert \/ LoadInsertFail \/ LoadInsertLost \/ LoadCommit
    \/ ValConnect \/ ValConnectFail \/ ValCount \/ ValNulls
    \/ RunSucceeds \/ RunFails
    \/ NewRun

Spec == Init /\ [][Next]_vars

\* ------------------------------------------------------------------ claims
\* The pairs <<u, s>> of stages with u earlier than s in the fixed order.
Precedes ==
    {p \in StageNames \X StageNames :
        \E i, j \in 1..Len(Stages) : i < j /\ Stages[i] = p[1] /\ Stages[j] = p[2]}

Before(u, s) == <<u, s>> \in Precedes

\* C1: the five stages of a run execute in the fixed order: a stage has been
\* started only if every stage before it has succeeded, at most one stage is
\* in progress at a time, and the run is in success only after validate_db
\* succeeded.
C1_StagesInOrder ==
    /\ \A p \in Precedes : tries[p[2]] > 0 => ti[p[1]] = "success"
    /\ Cardinality({s \in StageNames : ti[s] = "running"}) <= 1
    /\ \A s \in StageNames : (pc[s] # "idle") <=> (ti[s] = "running")
    /\ runState = "success" =>
          /\ ti["validate_db"] = "success"
          /\ \A s \in StageNames : pc[s] = "idle" /\ tries[s] >= 1

C1_Witness == runState = "success" /\ run = MaxRuns

Stored(f) ==
    IF insert_cols \subseteq f.cols
    THEN [i \in 1..Len(f.rows) |-> insert_values(f.rows[i])]
    ELSE <<>>

RECURSIVE Repeat(_, _)
Repeat(q, k) == IF k = 0 THEN <<>> ELSE q \o Repeat(q, k - 1)

\* No row of f has a missing retailer, product or sale price.
NoCriticalMissing(f) ==
    \A i \in 1..Len(f.rows) :
        \A c \in {"Revenda", "Produto", "Valor de Venda"} \cap f.cols : f.rows[i][c] # NA

\* The rows of fuels with a NULL in retailer, product or sale_price.
TrueNullRows ==
    Len(SelectSeq(fuels, LAMBDA r : r.retailer = NULL \/ r.product = NULL
                                       \/ r.sale_price = NULL))

\* validate_db has been executed in this run and is not in progress.
Validated == tries["validate_db"] >= 1 /\ pc["validate_db"] = "idle"

\* C4 as stated, for every N: once the load of a transformed file of N rows
\* without a critical null has completed, fuels holds exactly N rows and
\* validate_db raises no integrity error.  It is read here in its most
\* favourable way, for a table that was empty before the first run.
C4_LoadThenValid ==
    ( /\ ti["load_to_postgres"] = "success"
      /\ NoCriticalMissing(transformed)
      /\ fuels0 = <<>> ) =>
        /\ Len(fuels) = Len(transformed.rows)
        /\ err["validate_db"] \notin {"no_rows", "nulls"}

\* C4, amended: for N >= 1 and a table that was empty before the load, once
\* the load of a transformed file of N rows without a critical null has
\* completed, fuels holds exactly these N rows, and validate_db run next
\* raises no integrity error: it succeeds unless the connection fails.
C4_LoadIntoEmptyThenValid ==
    ( /\ ti["load_to_postgres"] = "success"
      /\ NoCriticalMissing(transformed)
      /\ Len(transformed.rows) >= 1
      /\ fuels0 = <<>> /\ loads = 1 ) =>
        /\ Len(fuels) = Len(transformed.rows)
        /\ fuels = Stored(transformed)
        /\ err["validate_db"] \in {"none", "connectivity"}
        /\ (Validated /\ err["validate_db"] = "none") => ti["validate_db"] = "success"

C4_Witness ==
    /\ fuels0 = <<>> /\ loads = 1
    /\ NoCriticalMissing(transformed)
    /\ Len(transformed.rows) = 2 /\ Len(fuels) = 2
    /\ ti["validate_db"] = "success"

\* C5: when fuels holds a row with a NULL retailer, product or sale_price,
\* validate_db does not succeed; the integrity error it raises is the one of
\* the null count, and the count it carries is the number of such rows.
C5_NullsFailWithTrueCount ==
    /\ (Validated /\ TrueNullRows > 0) =>
          /\ ti["validate_db"] \in {"up_for_retry", "failed"}
          /\ err["validate_db"] \in {"nulls", "connectivity"}
          /\ err["validate_db"] = "nulls" => null_count = TrueNullRows
    /\ ti["validate_db"] = "success" => TrueNullRows = 0

C5_Witness ==
    /\ Validated
    /\ err["validate_db"] = "nulls"
    /\ null_count = 2 /\ Len(fuels) > 2

\* C6: when fuels is empty, validate_db does not succeed and the integrity
\* error it raises is "no rows"; the null count is never taken of an empty
\* table, and a run is never in success with fuels empty.
C6_EmptyTableFails ==
    /\ (Validated /\ fuels = <<>>) =>
          /\ ti["validate_db"] \in {"up_for_retry", "failed"}
          /\ err["validate_db"] \in {"no_rows", "connectivity"}
    /\ pc["validate_db"] = "nulls" => (fuels # <<>> /\ row_count = Len(fuels))
    /\ err["validate_db"] = "no_rows" => (fuels = <<>> /\ row_count = 0)
    /\ runState = "success" => fuels # <<>>

C6_Witness ==
    /\ runState = "failed"
    /\ ti["load_to_postgres"] = "success" /\ loads >= 1
    /\ Len(transformed.rows) = 0
    /\ err["validate_db"] = "no_rows"

\* C7: from the start of validate_db on, whatever its outcome, fuels is what
\* it was when validate_db started; the rows the load committed stay.
C7_ValidateReadOnly ==
    tries["validate_db"] >= 1 =>
        /\ fuels = snapshot
        /\ tableExists
        /\ Len(fuels) >= Len(transformed.rows)

C7_Witness ==
    /\ ti["validate_db"] = "failed"
    /\ err["validate_db"] = "nulls"
    /\ Len(transformed.rows) = 2
    /\ Len(fuels) = Len(fuels0) + 2

\* C8: fuels only grows, by appending: every step keeps the rows it held, in
\* their places, and an existing table stays; after k commits of the N-row
\* file fuels is what it was before the first run followed by k copies of
\* the N rows, so k * N rows when it started empty.
C8_AppendOnly ==
    /\ [](/\ fuels = fuels0 \o Repeat(Stored(transformed), loads)
          /\ fuels0 = <<>> => Len(fuels) = loads * Len(transformed.rows))
    /\ [][ /\ Len(fuels') >= Len(fuels)
           /\ SubSeq(fuels', 1, Len(fuels)) = fuels
           /\ tableExists => tableExists' ]_vars

C8_Witness ==
    /\ fuels0 = <<>>
    /\ loads = 2
    /\ Len(transformed.rows) = 2
    /\ Len(fuels) = 4 /\ fuels[1] = fuels[3] /\ fuels[2] = fuels[4]

\* C9 as stated: the cleaned header is the raw header minus the drop list,
\* and the transformed header is a subset of the cleaned header.
C9_ColumnsNarrow ==
    /\ ti["clean_data"] = "success" => clean.cols = raw.cols \ drop_columns
    /\ ti["transform_data"] = "success" => transformed.cols \subseteq clean.cols

\* C9, amended: the cleaned header is the raw header minus the drop list
\* (listed columns that are absent are ignored), and the transformed header
\* is the cleaned header plus Year and Month.
C9_ColumnsDropThenAdd ==
    /\ ti["clean_data"] = "success" =>
          /\ clean.cols = raw.cols \ drop_columns
          /\ \A i \in 1..Len(clean.rows) : DOMAIN clean.rows[i] = clean.cols
    /\ ti["transform_data"] = "success" =>
          /\ transformed.cols = clean.cols \cup {"Year", "Month"}
          /\ \A i \in 1..Len(transformed.rows) : DOMAIN transformed.rows[i] = transformed.cols

C9_Witness ==
    /\ ti["transform_data"] = "success"
    /\ raw.cols \cap drop_columns # {}
    /\ ~(drop_columns \subseteq raw.cols)
    /\ Len(transformed.rows) >= 1

\* C10: the rows of a load reach fuels all at once or not at all: while the
\* load is in progress fuels is what it was at its start and the rows
\* inserted so far are only in the open transaction; an attempt that raised
\* left fuels as it was at its start, with fewer INSERTs executed than the
\* file has rows when it was an INSERT that failed; an attempt that
\* succeeded added every row of the file.
C10_LoadAllOrNothing ==
    LET load == "load_to_postgres"
        N == Len(df.rows)
    IN  /\ pc[load] # "idle" => fuels = snapshot
        /\ pc[load] = "insert" =>
              /\ executed <= N
              /\ txn = SubSeq(Stored(df), 1, executed)
        /\ pc[load] # "insert" => txn = <<>>
        /\ err[load] # "none" =>
              /\ fuels = snapshot
              /\ err[load] \in {"insert", "key"} => executed < N
        /\ (ti[load] = "success" /\ tries["validate_db"] = 0) =>
              /\ executed = N
              /\ fuels = snapshot \o Stored(df)

C10_Witness ==
    /\ err["load_to_postgres"] = "insert"
    /\ Len(df.rows) = 2
    /\ executed = 1
    /\ fuels = snapshot /\ txn = <<>>

=============================================================================
